---- MODULE Spec2Model ----
(***************************************************************************)
(* Model of three pieces of mlpack:                                        *)
(*   - RPlusPlusTreeDescentHeuristic::ChooseDescentNode (both overloads),  *)
(*   - MidpointSpaceSplit::SplitSpace,                                     *)
(*   - main() of the LARS executable.                                      *)
(* Each piece has its own specification (SpecDescent, SpecSplit,           *)
(* SpecLars) over the same variables; the variables of the other pieces    *)
(* rest at their idle values.                                              *)
(***************************************************************************)
EXTENDS Integers, Sequences, FiniteSets, TLC

VARIABLES
  children,   \* descent: child index (0-based) -> outer bound of that child
  dataset,    \* the immutable dataset matrix: column index -> point
  ndebug,     \* descent: TRUE when the build defines NDEBUG (assert compiled out)
  call,       \* descent: the last ChooseDescentNode call and how it ended
  bound,      \* split: the node's bound handed to SplitSpace
  points,     \* split: the node's point indices (ascending)
  hyp,        \* split: the HyperplaneType& output argument
  split,      \* split: the flag SplitSpace returned ("none" before a call)
  pc,         \* lars: position of main()
  matX,       \* lars: shape of matX
  matY,       \* lars: shape of matY
  fileY,      \* lars: shape of the responses matrix as loaded
  larsRuns,   \* lars: number of DoLARS calls made
  saved       \* lars: TRUE once beta.save wrote the output file

vars == <<children, dataset, ndebug, call, bound, points, hyp, split,
          pc, matX, matY, fileY, larsRuns, saved>>

descentVars == <<children, dataset, ndebug, call>>
splitVars == <<bound, points, hyp, split>>
larsVars == <<pc, matX, matY, fileY, larsRuns, saved>>

(***************************************************************************)
(* Bounds of the model.                                                    *)
(***************************************************************************)
\* Dimensionality D of the datasets.
Dim == 2
\* Largest number of children of the internal node.
MaxChildren == 2

Dims == 1..Dim

\* Coordinates of the descent dataset and of the faces of the outer bounds.
OuterCoord == 0..1

(***************************************************************************)
(* Bounding regions: one closed interval (lo, hi) per dimension.           *)
(***************************************************************************)
Intervals(C) == {r \in [lo : C, hi : C] : r.lo <= r.hi}

Boxes(C) == [Dims -> Intervals(C)]

\* The dataset that holds every point of the grid C^Dim once, as columns
\* 0 .. |C|^Dim - 1.
RECURSIVE Pow(_, _)
Pow(b, e) == IF e = 0 THEN 1 ELSE b * Pow(b, e - 1)

GridDataset(C) ==
  LET k == Cardinality(C)
  IN  [i \in 0..(Pow(k, Dim) - 1) |->
         [d \in Dims |-> (i \div Pow(k, d - 1)) % k]]

\* HRectBound::Contains(point): every dimension's range contains the
\* coordinate, the range being closed at both ends.
Contains(b, pt) == \A d \in Dims : b[d].lo <= pt[d] /\ pt[d] <= b[d].hi

(***************************************************************************)
(* RPlusPlusTreeDescentHeuristic                                           *)
(***************************************************************************)
NumChildren(node) == Cardinality(DOMAIN node)

\* parity: the number of calls made so far, modulo 2.
NoCall ==
  [op |-> "none", point |-> -1, outcome |-> "none", index |-> -1, parity |-> 0]

Record(op, point, r) ==
  [op |-> op, point |-> point, outcome |-> r.outcome, index |-> r.index,
   parity |-> 1 - call.parity]

Returned(i) == [outcome |-> "return", index |-> i]

Aborted == [outcome |-> "abort", index |-> -1]

\* assert(false); return 0;  -- aborts, unless the build defines NDEBUG, in
\* which case the assertion is compiled out and the statement after it runs.
AssertFalseThenReturn0(nd) == IF nd THEN Returned(0) ELSE Aborted

\* The loop with its bound off by one: the last child is never tested.
RECURSIVE ChooseLoopSkipLast(_, _, _, _)
ChooseLoopSkipLast(node, pt, bestIndex, nd) ==
  IF bestIndex + 1 < NumChildren(node)
  THEN IF Contains(node[bestIndex], pt)
       THEN Returned(bestIndex)
       ELSE ChooseLoopSkipLast(node, pt, bestIndex + 1, nd)
  ELSE AssertFalseThenReturn0(nd)

\* The loop keeping the last child that contains the point, not the first.
RECURSIVE ChooseLoopLast(_, _, _, _)
ChooseLoopLast(node, pt, bestIndex, nd) ==
  IF bestIndex < NumChildren(node)
  THEN LET rest == ChooseLoopLast(node, pt, bestIndex + 1, nd)
       IN  IF Contains(node[bestIndex], pt)
              /\ ~(\E j \in (bestIndex + 1)..(NumChildren(node) - 1) :
                     Contains(node[j], pt))
           THEN Returned(bestIndex)
           ELSE rest
  ELSE AssertFalseThenReturn0(nd)

\* The loop of ChooseDescentNode(node, point), from bestIndex on: the first
\* child whose outer bound contains the point is returned.
RECURSIVE ChooseLoop(_, _, _, _)
ChooseLoop(node, pt, bestIndex, nd) ==
  IF bestIndex < NumChildren(node)
  THEN IF Contains(node[bestIndex], pt)
       THEN Returned(bestIndex)
       ELSE ChooseLoop(node, pt, bestIndex + 1, nd)
  ELSE AssertFalseThenReturn0(nd)

\* ChooseDescentNode(TreeType* node, const size_t point)
ChooseDescentNode(node, data, point, nd) == ChooseLoop(node, data[point], 0, nd)

\* ChooseDescentNode(const TreeType* node, const TreeType* insertedNode):
\* both arguments are ignored.
ChooseDescentNodeSubtree(node, insertedNode, nd) == AssertFalseThenReturn0(nd)

Running == call.outcome # "abort"

\* Subtrees offered to the subtree overload: a single child whose outer bound
\* is the origin, or the whole grid.
InsertedNodes ==
  {[i \in 0..0 |-> [d \in Dims |-> [lo |-> 0, hi |-> h]]] : h \in OuterCoord}

\* A descent that enlarges the outer bound of the child it chooses.
ChoosePointGrowing ==
  /\ Running
  /\ \E point \in DOMAIN dataset :
       LET r == ChooseDescentNode(children, dataset, point, ndebug)
       IN  /\ call' = Record("point", point, r)
           /\ children' =
                IF r.outcome = "return"
                THEN [children EXCEPT ![r.index] =
                        [d \in Dims |-> [lo |-> 0, hi |-> @[d].hi]]]
                ELSE children
  /\ UNCHANGED <<dataset, ndebug>>
  /\ UNCHANGED <<splitVars, larsVars>>

\* The builder calls ChooseDescentNode(node, point) for a point of the dataset.
ChoosePoint ==
  /\ Running
  /\ \E point \in DOMAIN dataset :
       LET r == ChooseDescentNode(children, dataset, point, ndebug)
       IN  call' = Record("point", point, r)
  /\ UNCHANGED <<children, dataset, ndebug>>
  /\ UNCHANGED <<splitVars, larsVars>>

\* The builder calls the subtree overload with some subtree to insert.
ChooseSubtree ==
  /\ Running
  /\ \E insertedNode \in InsertedNodes :
       LET r == ChooseDescentNodeSubtree(children, insertedNode, ndebug)
       IN  call' = Record("subtree", -1, r)
  /\ UNCHANGED <<children, dataset, ndebug>>
  /\ UNCHANGED <<splitVars, larsVars>>

IdleSplit ==
  /\ bound = <<>>
  /\ points = <<>>
  /\ hyp = [set |-> FALSE]
  /\ split = "none"

IdleLars ==
  /\ pc = "idle"
  /\ matX = [n_rows |-> 0, n_cols |-> 0]
  /\ matY = [n_rows |-> 0, n_cols |-> 0]
  /\ fileY = [n_rows |-> 0, n_cols |-> 0]
  /\ larsRuns = 0
  /\ saved = FALSE

IdleDescent ==
  /\ children = <<>>
  /\ ndebug = FALSE
  /\ call = NoCall

InitDescent ==
  /\ \E n \in 1..MaxChildren : children \in [0..(n - 1) -> Boxes(OuterCoord)]
  /\ dataset = GridDataset(OuterCoord)
  /\ ndebug \in BOOLEAN
  /\ call = NoCall
  /\ IdleSplit
  /\ IdleLars

NextDescent == ChoosePoint \/ ChooseSubtree

SpecDescent == InitDescent /\ [][NextDescent]_vars

(***************************************************************************)
(* MidpointSpaceSplit                                                      *)
(***************************************************************************)
\* Largest coordinate of the split dataset and of the bounds handed to
\* SplitSpace.
SplitMaxCoord == 2
\* Largest number of points a node handed to SplitSpace owns.
MaxPoints == 2

SplitCoord == 0..SplitMaxCoord

NoHyperplane == [set |-> FALSE]

\* A hyperplane on dimension dim with split value num / den.
Hyperplane(dim, value) ==
  [set |-> TRUE, dim |-> dim, num |-> value.num, den |-> value.den]

\* The extent max_d - min_d of one dimension of a bound.
Width(r) == r.hi - r.lo

\* The midpoint (min_d + max_d) / 2 of one dimension, as a fraction.
Mid(r) == [num |-> r.lo + r.hi, den |-> 2]

\* The scan keeping the last of the widest dimensions.
RECURSIVE WidestLoopLastTie(_, _, _)
WidestLoopLastTie(b, d, best) ==
  IF d > Dim THEN best
  ELSE WidestLoopLastTie(b, d + 1,
         IF Width(b[d]) >= Width(b[best]) THEN d ELSE best)

WidestDimLastTie(b) == WidestLoopLastTie(b, 2, 1)

\* The widest dimension of the bound, scanning the dimensions in index order
\* and keeping the first of the widest.
RECURSIVE WidestLoop(_, _, _)
WidestLoop(b, d, best) ==
  IF d > Dim THEN best
  ELSE WidestLoop(b, d + 1, IF Width(b[d]) > Width(b[best]) THEN d ELSE best)

WidestDim(b) == WidestLoop(b, 2, 1)

\* The values of the points pts of data along dimension d.
Projected(data, pts, d) == {data[pts[k]][d] : k \in 1..Len(pts)}

SetMin(S) == CHOOSE x \in S : \A y \in S : x <= y

SetMax(S) == CHOOSE x \in S : \A y \in S : y <= x

\* The midpoint of the points' own values along dimension d.
SplitValueOfPoints(b, data, pts, d) ==
  [num |-> SetMin(Projected(data, pts, d)) + SetMax(Projected(data, pts, d)),
   den |-> 2]

\* The split value along dimension d: the midpoint of the bound's extent.
SplitValue(b, data, pts, d) == Mid(b[d])

\* A split refused as soon as one dimension has extent zero.
CanSplitAllPositive(b) == \A d \in Dims : Width(b[d]) > 0

\* Whether a separating hyperplane exists: the widest extent is not zero.
CanSplit(b) == Width(b[WidestDim(b)]) > 0

\* SplitSpace(bound, data, points, hyp): the flag and, on success, the
\* hyperplane assigned to hyp.
SplitSpace(b, data, pts) ==
  IF CanSplit(b)
  THEN [ok |-> TRUE,
        hyp |-> Hyperplane(WidestDim(b), SplitValue(b, data, pts, WidestDim(b)))]
  ELSE [ok |-> FALSE, hyp |-> NoHyperplane]

Flag(ok) == IF ok THEN "true" ELSE "false"

\* A call that consumes the point indices it was given.
SplitSpaceCallConsuming ==
  /\ bound # <<>>
  /\ LET r == SplitSpace(bound, dataset, points)
     IN  /\ split' = Flag(r.ok)
         /\ hyp' = r.hyp
         /\ points' = IF r.ok THEN Tail(points) ELSE points
  /\ UNCHANGED <<bound, dataset>>
  /\ UNCHANGED <<children, ndebug, call, larsVars>>

\* The builder calls SplitSpace on the node. The inputs are const references;
\* on failure the content of hyp is unspecified (left as it was, or reset).
SplitSpaceCall ==
  /\ bound # <<>>
  /\ LET r == SplitSpace(bound, dataset, points)
     IN  /\ split' = Flag(r.ok)
         /\ IF r.ok THEN hyp' = r.hyp ELSE hyp' \in {hyp, NoHyperplane}
  /\ UNCHANGED <<bound, dataset, points>>
  /\ UNCHANGED <<children, ndebug, call, larsVars>>

\* Hyperplane: a point is on the left when its value is at most the split
\* value, and on the right otherwise.
Left(h, pt) == h.den * pt[h.dim] <= h.num

Keep(pts, keep) ==
  LET F[k \in 0..Len(pts)] ==
        IF k = 0 THEN <<>>
        ELSE IF keep[k] THEN Append(F[k - 1], pts[k]) ELSE F[k - 1]
  IN  F[Len(pts)]

\* The bounding box of the points pts of data.
BoundOf(data, pts) ==
  [d \in Dims |-> [lo |-> SetMin(Projected(data, pts, d)),
                   hi |-> SetMax(Projected(data, pts, d))]]

\* The builder partitions the points by the hyperplane, hands the points of
\* one side to a new child and goes on with that child: its bound is rebuilt
\* from its points; the hyperplane object it will pass is a fresh one or the
\* one just used.
Recurse ==
  /\ split = "true"
  /\ \E left \in BOOLEAN :
       LET keep == [k \in 1..Len(points) |->
                      Left(hyp, dataset[points[k]]) = left]
           child == Keep(points, keep)
       IN  /\ child # <<>>
           /\ points' = child
           /\ bound' = BoundOf(dataset, child)
  /\ hyp' \in {NoHyperplane, hyp}
  /\ split' = "none"
  /\ UNCHANGED <<dataset>>
  /\ UNCHANGED <<children, ndebug, call, larsVars>>

\* The ascending sequences of at most n elements of S.
RECURSIVE Ascending(_, _)
Ascending(S, n) ==
  IF n = 0 THEN {<<>>}
  ELSE LET shorter == Ascending(S, n - 1)
       IN  shorter \cup
           {Append(q, x) : <<q, x>> \in
              {t \in shorter \X S :
                 /\ Len(t[1]) = n - 1
                 /\ (t[1] # <<>> => t[1][Len(t[1])] < t[2])}}

InitSplit ==
  /\ dataset = GridDataset(SplitCoord)
  /\ bound \in Boxes(SplitCoord)
  /\ points \in Ascending({p \in DOMAIN dataset : Contains(bound, dataset[p])},
                          MaxPoints) \ {<<>>}
  /\ hyp = NoHyperplane
  /\ split = "none"
  /\ IdleDescent
  /\ IdleLars

NextSplit == SplitSpaceCall \/ Recurse

SpecSplit == InitSplit /\ [][NextSplit]_vars

(***************************************************************************)
(* main() of the LARS executable                                           *)
(***************************************************************************)
\* Largest number of rows and of columns of a loaded matrix.
MaxSize == 3

Shape(r, c) == [n_rows |-> r, n_cols |-> c]

\* The shapes a loaded matrix can have: empty, or at least 1 x 1.
Shapes == {Shape(0, 0)} \cup {Shape(r, c) : r \in 1..MaxSize, c \in 1..MaxSize}

n_elem(m) == m.n_rows * m.n_cols

\* trans(m)
trans(m) == Shape(m.n_cols, m.n_rows)

\* Log::Fatal << ... << endl: the program ends there.
LogFatal == pc' = "fatal"

\* data::Load(matXFilename, matX, true): matX is loaded, or the load is fatal.
LoadX ==
  /\ pc = "load_x"
  /\ \/ /\ matX' \in Shapes
        /\ pc' = "load_y"
     \/ /\ LogFatal
        /\ UNCHANGED matX
  /\ UNCHANGED <<matY, fileY, larsRuns, saved>>
  /\ UNCHANGED <<descentVars, splitVars>>

\* data::Load(yFilename, matY, true)
LoadY ==
  /\ pc = "load_y"
  /\ \/ /\ matY' \in Shapes
        /\ fileY' = matY'
        /\ pc' = "orient"
     \/ /\ LogFatal
        /\ UNCHANGED <<matY, fileY>>
  /\ UNCHANGED <<matX, larsRuns, saved>>
  /\ UNCHANGED <<descentVars, splitVars>>

\* if (matY.n_rows == 1) matY = trans(matY);
Orient ==
  /\ pc = "orient"
  /\ matY' = IF matY.n_rows = 1 THEN trans(matY) ELSE matY
  /\ pc' = "check_cols"
  /\ UNCHANGED <<matX, fileY, larsRuns, saved>>
  /\ UNCHANGED <<descentVars, splitVars>>

\* if (matY.n_cols > 1) Log::Fatal << ...
CheckCols ==
  /\ pc = "check_cols"
  /\ IF matY.n_cols > 1 THEN LogFatal ELSE pc' = "check_elem"
  /\ UNCHANGED <<matX, matY, fileY, larsRuns, saved>>
  /\ UNCHANGED <<descentVars, splitVars>>

\* The check made against the number of rows of matX.
CheckElemRows ==
  /\ pc = "check_elem"
  /\ IF n_elem(matY) # matX.n_rows THEN LogFatal ELSE pc' = "do_lars"
  /\ UNCHANGED <<matX, matY, fileY, larsRuns, saved>>
  /\ UNCHANGED <<descentVars, splitVars>>

\* if (matY.n_elem != matX.n_cols) Log::Fatal << ...
CheckElem ==
  /\ pc = "check_elem"
  /\ IF n_elem(matY) # matX.n_cols THEN LogFatal ELSE pc' = "do_lars"
  /\ UNCHANGED <<matX, matY, fileY, larsRuns, saved>>
  /\ UNCHANGED <<descentVars, splitVars>>

\* lars.DoLARS(trans(matX), matY.unsafe_col(0));
DoLARS ==
  /\ pc = "do_lars"
  /\ larsRuns' = larsRuns + 1
  /\ pc' = "save"
  /\ UNCHANGED <<matX, matY, fileY, saved>>
  /\ UNCHANGED <<descentVars, splitVars>>

\* lars.Solution(beta); beta.save(betaFilename, raw_ascii);
Save ==
  /\ pc = "save"
  /\ saved' = TRUE
  /\ pc' = "done"
  /\ UNCHANGED <<matX, matY, fileY, larsRuns>>
  /\ UNCHANGED <<descentVars, splitVars>>

InitLars ==
  /\ pc = "load_x"
  /\ matX = Shape(0, 0)
  /\ matY = Shape(0, 0)
  /\ fileY = Shape(0, 0)
  /\ larsRuns = 0
  /\ saved = FALSE
  /\ IdleDescent
  /\ dataset = <<>>
  /\ IdleSplit

NextLars == LoadX \/ LoadY \/ Orient \/ CheckCols \/ CheckElem \/ DoLARS \/ Save

SpecLars == InitLars /\ [][NextLars]_vars

(***************************************************************************)
(* Properties of ChooseDescentNode (checked under SpecDescent)             *)
(***************************************************************************)
LastPoint == dataset[call.point]

\* The closed-interval test of the claims, written out: min_d <= point_d <=
\* max_d in every dimension d.
InClosedBound(b, pt) == \A d \in Dims : b[d].lo <= pt[d] /\ pt[d] <= b[d].hi

Containing(pt) == {i \in DOMAIN children : InClosedBound(children[i], pt)}

\* The children whose outer bound reports the point as contained.
Holders(pt) == {i \in DOMAIN children : Contains(children[i], pt)}

\* The partition invariant: every point of the dataset lies in the outer bound
\* of exactly one child.
Partition ==
  \A p \in DOMAIN dataset : Cardinality(Holders(dataset[p])) = 1

\* C1 (descent coverage): when the children's outer bounds partition the
\* space, ChooseDescentNode(node, point) returns an index i such that child
\* i's outer bound contains the point and no other child's does.
C1_DescentCoverage ==
  (call.op = "point" /\ Partition) =>
    /\ call.outcome = "return"
    /\ call.index \in DOMAIN children
    /\ Holders(LastPoint) = {call.index}

C1_Witness ==
  /\ call.op = "point"
  /\ Partition
  /\ NumChildren(children) = 2
  /\ call.outcome = "return"
  /\ call.index = 1

\* C2 (no match is fatal): when no child's outer bound contains the point,
\* ChooseDescentNode(node, point) aborts and returns no child index.
C2_NoMatchAborts ==
  (call.op = "point" /\ Holders(LastPoint) = {}) => call.outcome = "abort"

\* C3 (subtree overload is fatal): ChooseDescentNode(node, insertedNode)
\* aborts on every invocation and returns no child index.
C3_SubtreeAborts ==
  call.op = "subtree" => call.outcome = "abort"

\* C7 (first containing child): ChooseDescentNode(node, point) returns the
\* smallest index in [0, NumChildren) whose outer bound contains the point
\* under the closed-interval test, also when several children contain it.
C7_FirstContaining ==
  (call.op = "point" /\ Containing(LastPoint) # {}) =>
    /\ call.outcome = "return"
    /\ call.index \in 0..(NumChildren(children) - 1)
    /\ call.index \in Containing(LastPoint)
    /\ \A j \in Containing(LastPoint) : call.index <= j

\* Several children contain the point, which lies on a face of the chosen one.
C7_Witness ==
  /\ call.op = "point"
  /\ Cardinality(Containing(LastPoint)) >= 2
  /\ call.outcome = "return"
  /\ call.index = 0
  /\ \E d \in Dims : /\ children[0][d].lo < children[0][d].hi
                     /\ LastPoint[d] = children[0][d].hi

\* C8 (descent is pure): a call of ChooseDescentNode(node, point) leaves the
\* children, their outer bounds and the dataset unchanged, and a call with the
\* point of the call before it ends as that call did.
C8_DescentPure ==
  [][call'.op = "point" =>
       /\ children' = children
       /\ dataset' = dataset
       /\ (call.op = "point" /\ call'.point = call.point) =>
            (call'.outcome = call.outcome /\ call'.index = call.index)]_vars

\* A second call in a row has returned.
C8_Witness ==
  /\ call.op = "point"
  /\ call.parity = 0
  /\ call.outcome = "return"
  /\ NumChildren(children) = 2

(***************************************************************************)
(* Properties of SplitSpace (checked under SpecSplit)                      *)
(***************************************************************************)
Extent(d) == bound[d].hi - bound[d].lo

\* C4 (widest dimension, lowest index on ties): the hyperplane SplitSpace
\* returns is on a dimension of maximal extent of the bound, and every
\* dimension of a lower index has a strictly smaller extent.
C4_WidestLowestIndex ==
  split = "true" =>
    /\ hyp.dim \in Dims
    /\ \A d \in Dims : Extent(d) <= Extent(hyp.dim)
    /\ \A d \in Dims : d < hyp.dim => Extent(d) < Extent(hyp.dim)

\* Two dimensions share the maximal extent and the lower one was chosen.
C4_Witness ==
  /\ split = "true"
  /\ Extent(1) = Extent(2)
  /\ Extent(1) = SplitMaxCoord
  /\ hyp.dim = 1

C6_FalseIffZeroExtent ==
  split # "none" =>
    /\ split \in {"true", "false"}
    /\ split = "false" <=> (\A d \in Dims : bound[d].lo = bound[d].hi)
    /\ split = "true" => (hyp.set /\ hyp.dim \in Dims /\ Extent(hyp.dim) > 0)

\* A node was split, and the child made of one side, a single-point bound,
\* was refused: the hyperplane object still holds the parent's hyperplane.
C6_Witness ==
  /\ split = "false"
  /\ \A d \in Dims : Extent(d) = 0
  /\ hyp.set

Oriented(y) == IF y.n_rows = 1 THEN Shape(y.n_cols, y.n_rows) ELSE y

\* The responses pass the validation: after orientation at most one column,
\* and as many elements as matX has columns.
ValidResponses ==
  /\ Oriented(fileY).n_cols <= 1
  /\ Oriented(fileY).n_rows * Oriented(fileY).n_cols = matX.n_cols

\* C10 (validation before the solver): DoLARS has run, or the solution file
\* has been written, only if the loaded responses, a single row transposed to
\* a column, have at most one column and as many elements as matX has
\* columns; a run that ended in a fatal error ran no solver and wrote no file.
C10_ValidatedBeforeLARS ==
  /\ (pc \in {"do_lars", "save", "done"} \/ larsRuns > 0 \/ saved) =>
       (ValidResponses /\ matY = Oriented(fileY))
  /\ pc = "fatal" => (larsRuns = 0 /\ ~saved)
  /\ saved => larsRuns = 1

\* A row of responses as long as matX has columns went through the solver and
\* was saved.
C10_Witness ==
  /\ pc = "done"
  /\ saved
  /\ fileY.n_rows = 1
  /\ fileY.n_cols = MaxSize
  /\ matX.n_rows < matX.n_cols

====
